---- MODULE Spec2Model ----
(***************************************************************************)
(* A model of sparseinst/sparseinst_point.py: the unfold-and-compare       *)
(* primitive, the colour-similarity builder, mask rescoring, the training  *)
(* target construction (add_bitmasks_from_boxes, prepare_targets) and the  *)
(* inference post-processor.                                               *)
(*                                                                         *)
(* A tensor is a record [shape, data]: shape is the tuple of its sizes and *)
(* data its elements in row-major order.  Indices are 0-based as in the    *)
(* source; data is a TLA+ sequence, so element n lives at data[n + 1].     *)
(***************************************************************************)
EXTENDS Integers, Sequences, FiniteSets, TLC

VARIABLES pc, fn, args, raised, ret, gt_instances

vars == <<pc, fn, args, raised, ret, gt_instances>>

----------------------------------------------------------------------------
(* Bounds of the model. *)

MaxHW == 3
MaxDil == 2
MaxKernel == 5
MaxBatch == 2
MaxInst == 2
BoxPad == 1
MaxSlots == 2

----------------------------------------------------------------------------
(* Tensors. *)

RECURSIVE Prod(_)
Prod(s) == IF s = <<>> THEN 1 ELSE Head(s) * Prod(Tail(s))

(* The data is held as a tuple. *)
Tensor(shape, data) == [shape |-> shape, data |-> data \o <<>>]

At4(x, b, c, i, j) ==
    x.data[((b * x.shape[2] + c) * x.shape[3] + i) * x.shape[4] + j + 1]

At5(x, b, c, n, i, j) ==
    x.data[(((b * x.shape[2] + c) * x.shape[3] + n) * x.shape[4] + i)
               * x.shape[5] + j + 1]

(* The outcome of a call: it raised, or it returned a value. *)
Raise(e) == [raised |-> e, value |-> <<>>]
Return(v) == [raised |-> "none", value |-> <<v>>]

(* A call followed by the rest of the function: what the call raises       *)
(* propagates, and what it returns is handed to the rest.                  *)
Then(r, rest(_)) == IF r.raised # "none" THEN r ELSE rest(r.value[1])

(* torch.nn.functional.unfold with stride 1: a (B, C, H, W) input gives    *)
(* (B, C*k*k, L) where L counts the window positions; channel c*k*k+a*k+b  *)
(* of position (oi, oj) is the zero-padded input at                        *)
(* (oi + a*d - p, oj + b*d - p).                                           *)
F_unfold(x, k, p, d) ==
    LET B == x.shape[1]
        C == x.shape[2]
        H == x.shape[3]
        W == x.shape[4]
        Lh == (H + 2 * p - d * (k - 1) - 1) + 1
        Lw == (W + 2 * p - d * (k - 1) - 1) + 1
        L == Lh * Lw
        el(f) ==
            LET l == f % L
                ch == (f \div L) % (C * k * k)
                b == f \div (L * C * k * k)
                c == ch \div (k * k)
                a == (ch % (k * k)) \div k
                bb == ch % k
                i == (l \div Lw) + a * d - p
                j == (l % Lw) + bb * d - p
            IN IF i >= 0 /\ i < H /\ j >= 0 /\ j < W
               THEN At4(x, b, c, i, j) ELSE 0
    IN IF Lh <= 0 \/ Lw <= 0
       THEN Raise("RuntimeError")
       ELSE Return(Tensor(<<B, C * k * k, L>>,
                          [f \in 1..(B * C * k * k * L) |-> el(f - 1)]))

(* Tensor.reshape(B, C, -1, H, W): the data is kept in order and the -1    *)
(* size is inferred; it fails when the sizes do not divide the element     *)
(* count.                                                                  *)
reshape(t, B, C, H, W) ==
    LET numel == Prod(t.shape)
        known == B * C * H * W
    IN IF known = 0 \/ numel % known # 0
       THEN Raise("RuntimeError")
       ELSE Return(Tensor(<<B, C, numel \div known, H, W>>, t.data))

(* Python's slice bounds on a dimension of length n. *)
SliceBound(v, n) ==
    LET w == IF v < 0 THEN v + n ELSE v
    IN IF w < 0 THEN 0 ELSE IF w > n THEN n ELSE w

(* t[:, :, lo:hi] of a rank-5 tensor. *)
Slice2(t, lo, hi) ==
    LET n == t.shape[3]
        s == SliceBound(lo, n)
        e == SliceBound(hi, n)
        m == IF e > s THEN e - s ELSE 0
        shp == <<t.shape[1], t.shape[2], m, t.shape[4], t.shape[5]>>
        inner == t.shape[4] * t.shape[5]
        el(f) ==
            LET j == f % t.shape[5]
                i == (f \div t.shape[5]) % t.shape[4]
                k == (f \div inner) % m
                c == (f \div (inner * m)) % t.shape[2]
                b == f \div (inner * m * t.shape[2])
            IN At5(t, b, c, k + s, i, j)
    IN Tensor(shp, [f \in 1..Prod(shp) |-> el(f - 1)])

(* torch.cat((u, v), dim=2) of two rank-5 tensors. *)
Cat2(u, v) ==
    LET m == u.shape[3] + v.shape[3]
        shp == <<u.shape[1], u.shape[2], m, u.shape[4], u.shape[5]>>
        inner == u.shape[4] * u.shape[5]
        el(f) ==
            LET j == f % u.shape[5]
                i == (f \div u.shape[5]) % u.shape[4]
                k == (f \div inner) % m
                c == (f \div (inner * m)) % u.shape[2]
                b == f \div (inner * m * u.shape[2])
            IN IF k < u.shape[3]
               THEN At5(u, b, c, k, i, j)
               ELSE At5(v, b, c, k - u.shape[3], i, j)
    IN Tensor(shp, [f \in 1..Prod(shp) |-> el(f - 1)])

----------------------------------------------------------------------------
(* unfold_wo_center *)

(* The padding of an undilated window. *)
PaddingWithoutDilation(kernel_size, dilation) == kernel_size \div 2

SamePadding(kernel_size, dilation) ==
    (kernel_size + (dilation - 1) * (kernel_size - 1)) \div 2

unfold_wo_center(x, kernel_size, dilation) ==
    IF Len(x.shape) # 4 THEN Raise("AssertionError")
    ELSE IF kernel_size % 2 # 1 THEN Raise("AssertionError")
    ELSE
      Then(F_unfold(x, kernel_size, SamePadding(kernel_size, dilation), dilation),
           LAMBDA unfolded :
             Then(reshape(unfolded, x.shape[1], x.shape[2], x.shape[3], x.shape[4]),
                  LAMBDA unfolded_x :
                    Return(Cat2(Slice2(unfolded_x, 0, (kernel_size * kernel_size) \div 2),
                                Slice2(unfolded_x, (kernel_size * kernel_size) \div 2 + 1,
                                       unfolded_x.shape[3])))))

----------------------------------------------------------------------------
(* Numbers.  Probabilities, scores and soft mask values are fixed-point    *)
(* numbers in thousandths (Milli is 1.0).  Quotients are floored.          *)

Milli == 1000

RECURSIVE IsqrtIter(_, _, _)
IsqrtIter(n, lo, hi) ==
    IF lo >= hi THEN lo
    ELSE LET mid == (lo + hi + 1) \div 2
         IN IF mid * mid <= n THEN IsqrtIter(n, mid, hi)
            ELSE IsqrtIter(n, lo, mid - 1)

(* floor(sqrt(n)) for 0 <= n < 2^31. *)
Isqrt(n) == IsqrtIter(n, 0, IF n < 46340 THEN n ELSE 46340)

(* floor(n * 100^k / d), by long division in base 100. *)
RECURSIVE FixDiv(_, _, _)
FixDiv(n, d, k) ==
    IF k = 0 THEN n \div d
    ELSE (n \div d) * (100 ^ k) + FixDiv((n % d) * 100, d, k - 1)

----------------------------------------------------------------------------
(* get_images_color_similarity *)

(* torch.exp(-torch.norm(diff, dim=1) * 0.5) in float32, from the squared  *)
(* norm n2.  The result is coded by its binary order of magnitude: code 0  *)
(* is the float 0.0 and code c in 1..F32Codes is a positive float of       *)
(* magnitude 2^(c - F32Codes), so F32Codes is 1.0 and a larger code is a   *)
(* larger number.  exp(-t) is 2^(-t * log2(e)); the smallest positive      *)
(* float32 is 2^-149, and a result below 2^-150 is rounded to 0.0.         *)
F32Codes == 150

Log2eHalfE4 == 7213

ExpNegHalfNorm(n2) ==
    LET level == (Isqrt(n2 * 100) * Log2eHalfE4) \div 100000
    IN IF level >= F32Codes THEN 0 ELSE F32Codes - level

(* The first factor alone. *)
WithoutWeights(u, v) == Return(u)

(* Elementwise product of two rank-4 tensors with broadcasting. *)
Mul4(u, v) ==
    LET ok == \A k \in 1..4 :
                u.shape[k] = v.shape[k] \/ u.shape[k] = 1 \/ v.shape[k] = 1
        dim(k) == IF u.shape[k] = 1 THEN v.shape[k] ELSE u.shape[k]
        shp == <<dim(1), dim(2), dim(3), dim(4)>>
        ix(t, k, i) == IF t.shape[k] = 1 THEN 0 ELSE i
        el(f) ==
            LET j == f % shp[4]
                i == (f \div shp[4]) % shp[3]
                c == (f \div (shp[4] * shp[3])) % shp[2]
                b == f \div (shp[4] * shp[3] * shp[2])
            IN At4(u, ix(u, 1, b), ix(u, 2, c), ix(u, 3, i), ix(u, 4, j))
                 * At4(v, ix(v, 1, b), ix(v, 2, c), ix(v, 3, i), ix(v, 4, j))
    IN IF ~ok THEN Raise("RuntimeError")
       ELSE Return(Tensor(shp, [f \in 1..Prod(shp) |-> el(f - 1)]))

(* t[:, 0] of a rank-5 tensor. *)
Select1(t) ==
    LET shp == <<t.shape[1], t.shape[3], t.shape[4], t.shape[5]>>
        el(f) ==
            LET j == f % shp[4]
                i == (f \div shp[4]) % shp[3]
                n == (f \div (shp[4] * shp[3])) % shp[2]
                b == f \div (shp[4] * shp[3] * shp[2])
            IN At5(t, b, 0, n, i, j)
    IN Tensor(shp, [f \in 1..Prod(shp) |-> el(f - 1)])

(* exp(-norm(images[:, :, None] - unfolded_images, dim=1) * 0.5) *)
Similarity(images, unfolded_images) ==
    LET shp == <<unfolded_images.shape[1], unfolded_images.shape[3],
                 unfolded_images.shape[4], unfolded_images.shape[5]>>
        C == images.shape[2]
        el(f) ==
            LET j == f % shp[4]
                i == (f \div shp[4]) % shp[3]
                n == (f \div (shp[4] * shp[3])) % shp[2]
                b == f \div (shp[4] * shp[3] * shp[2])
                sq[c \in 0..C] ==
                    IF c = 0 THEN 0
                    ELSE LET diff == At4(images, b, c - 1, i, j)
                                       - At5(unfolded_images, b, c - 1, n, i, j)
                         IN sq[c - 1] + diff * diff
            IN ExpNegHalfNorm(sq[C])
    IN Tensor(shp, [f \in 1..Prod(shp) |-> el(f - 1)])

get_images_color_similarity(images, image_masks, kernel_size, dilation) ==
    IF Len(images.shape) # 4 THEN Raise("AssertionError")
    ELSE IF images.shape[1] # 1 THEN Raise("AssertionError")
    ELSE
      Then(unfold_wo_center(images, kernel_size, dilation),
           LAMBDA unfolded_images :
             Then(unfold_wo_center(
                      Tensor(<<1, 1>> \o image_masks.shape, image_masks.data),
                      kernel_size, dilation),
                  LAMBDA unfolded_weights :
                    Mul4(Similarity(images, unfolded_images),
                         Select1(unfolded_weights))))

----------------------------------------------------------------------------
(* rescoring_mask *)

(* 1 / 1e-6 *)
EpsInv == 1000000

(* The sum over dims 1 and 2 of the products u * v, for detection n of     *)
(* two (N, H, W) tensors.                                                  *)
RECURSIVE SumProd(_, _, _, _)
SumProd(u, v, n, f) ==
    IF f = 0 THEN 0
    ELSE LET at == n * u.shape[2] * u.shape[3] + f
         IN u.data[at] * v.data[at] + SumProd(u, v, n, f - 1)

(* The rescoring with the mass of the soft mask as the denominator:        *)
(* scores * ((masks * mask_pred_).sum([1, 2]) / (masks.sum([1, 2]) + 1e-6)) *)
RescoringBySoftMass(scores, mask_pred, masks) ==
    [n \in 1..Len(scores) |->
       scores[n] * FixDiv(SumProd(masks, mask_pred, n - 1,
                                  masks.shape[2] * masks.shape[3]) * Milli,
                          SumProd(masks, [shape |-> masks.shape,
                                          data |-> [f \in 1..Prod(masks.shape) |-> 1]],
                                  n - 1, masks.shape[2] * masks.shape[3]) * Milli + 1,
                          3)] \o <<>>

(* scores * ((masks * mask_pred_).sum([1, 2])                              *)
(*              / (mask_pred_.sum([1, 2]) + 1e-6))                         *)
(* scores and masks are in thousandths and mask_pred_ is 0 or 1; the       *)
(* quotient is taken to six decimals, so the result is in units of 1e-9.   *)
rescoring_mask(scores, mask_pred, masks) ==
    LET mask_pred_ == mask_pred
        hw == masks.shape[2] * masks.shape[3]
    IN [n \in 1..Len(scores) |->
          scores[n] * FixDiv(SumProd(masks, mask_pred_, n - 1, hw) * (EpsInv \div Milli),
                             SumProd(mask_pred_, mask_pred_, n - 1, hw) * EpsInv + 1,
                             3)] \o <<>>

----------------------------------------------------------------------------
(* add_bitmasks_from_boxes *)

(* A ground-truth record (detectron2 Instances) is                         *)
(*   [image_size |-> <<h, w>>, gt_classes, gt_boxes,                       *)
(*    image_color_similarity]                                              *)
(* where gt_boxes is a sequence of <<x1, y1, x2, y2>> in half pixels (the  *)
(* coordinate 3 is 1.5) and image_color_similarity is <<>> while the       *)
(* field is not set and <<tensor>> once it is.                             *)

pairwise_size == 3
pairwise_dilation == 2
stride == 4

(* skimage.color.rgb2lab on the colours the model's images are made of     *)
(* (black, white, blue, yellow), rounded to integers.                      *)
rgb2lab(rgb) ==
    CASE rgb = <<0, 0, 0>> -> <<0, 0, 0>>
      [] rgb = <<255, 255, 255>> -> <<100, 0, 0>>
      [] rgb = <<0, 0, 255>> -> <<32, 79, -108>>
      [] rgb = <<255, 255, 0>> -> <<97, -22, 94>>

(* F.avg_pool2d(images.float(), kernel_size=stride, stride=stride) and the *)
(* .byte() of the loop: the mean of each stride x stride block, truncated. *)
avg_pool2d(images) ==
    LET B == images.shape[1]
        C == images.shape[2]
        h == images.shape[3] \div stride
        w == images.shape[4] \div stride
        el(f) ==
            LET j == f % w
                i == (f \div w) % h
                c == (f \div (w * h)) % C
                b == f \div (w * h * C)
                sum[k \in 0..(stride * stride)] ==
                    IF k = 0 THEN 0
                    ELSE sum[k - 1]
                           + At4(images, b, c, i * stride + (k - 1) \div stride,
                                 j * stride + ((k - 1) % stride))
            IN sum[stride * stride] \div (stride * stride)
    IN Tensor(<<B, C, h, w>>, [f \in 1..(B * C * h * w) |-> el(f - 1)])

(* The number of indices start, start + stride, ... below n. *)
StridedLen(n, start) ==
    IF n <= start THEN 0 ELSE (n - start + stride - 1) \div stride

(* image_masks[:, start::stride, start::stride][im_i], a rank-2 tensor. *)
SubsampledMask(image_masks, start, im_i) ==
    LET H == image_masks.shape[2]
        W == image_masks.shape[3]
        h == StridedLen(H, start)
        w == StridedLen(W, start)
    IN Tensor(<<h, w>>,
              [f \in 1..(h * w) |->
                 image_masks.data[(im_i * H + start + ((f - 1) \div w) * stride) * W
                                    + start + ((f - 1) % w) * stride + 1]])

(* rgb2lab of downsampled_images[im_i] as a (1, 3, h, w) tensor. *)
ImagesLab(downsampled_images, im_i) ==
    LET h == downsampled_images.shape[3]
        w == downsampled_images.shape[4]
    IN Tensor(<<1, 3, h, w>>,
              [f \in 1..(3 * h * w) |->
                 LET j == (f - 1) % w
                     i == ((f - 1) \div w) % h
                     c == (f - 1) \div (w * h)
                 IN rgb2lab(<<At4(downsampled_images, im_i, 0, i, j),
                              At4(downsampled_images, im_i, 1, i, j),
                              At4(downsampled_images, im_i, 2, i, j)>>)[c + 1]])

(* The map itself, not replicated. *)
NotReplicated(t, n) == t

(* torch.cat([t for _ in range(n)], dim=0) *)
Replicate(t, n) ==
    LET numel == Prod(t.shape)
    IN Tensor(<<n * t.shape[1]>> \o Tail(t.shape),
              [f \in 1..(n * numel) |-> t.data[((f - 1) % numel) + 1]])

(* The loop over the ground-truth records, from record im_i on: AddLoop is *)
(* the head of the loop and AddStep its body once the colour similarity of *)
(* image im_i is computed.  A record with no instance is left as it is.    *)
RECURSIVE AddLoop(_, _, _, _)
RECURSIVE AddStep(_, _, _, _, _)
AddLoop(instances, downsampled_images, image_masks, im_i) ==
    IF im_i > Len(instances) THEN [raised |-> "none", instances |-> instances]
    ELSE AddStep(instances, downsampled_images, image_masks, im_i,
                 get_images_color_similarity(
                     ImagesLab(downsampled_images, im_i - 1),
                     SubsampledMask(image_masks, stride \div 2, im_i - 1),
                     pairwise_size, pairwise_dilation))

AddStep(instances, downsampled_images, image_masks, im_i, images_color_similarity) ==
    IF images_color_similarity.raised # "none"
    THEN [raised |-> images_color_similarity.raised, instances |-> instances]
    ELSE AddLoop(
           IF Len(instances[im_i].gt_boxes) > 0
           THEN [instances EXCEPT ![im_i].image_color_similarity =
                   <<Replicate(images_color_similarity.value[1],
                               Len(instances[im_i].gt_boxes))>>]
           ELSE instances,
           downsampled_images, image_masks, im_i + 1)

(* The divisibility checked once the loop has run. *)
AssertAfterLoop(instances, images, image_masks) ==
    IF images.shape[3] % stride # 0 \/ images.shape[4] % stride # 0
    THEN [raised |-> "AssertionError",
          instances |-> AddLoop(instances, avg_pool2d(images), image_masks, 1).instances]
    ELSE AddLoop(instances, avg_pool2d(images), image_masks, 1)

(* The ground-truth records as the call leaves them, and what it raised. *)
add_bitmasks_from_boxes(instances, images, image_masks) ==
    IF images.shape[3] % stride # 0 THEN [raised |-> "AssertionError", instances |-> instances]
    ELSE IF images.shape[4] % stride # 0 THEN [raised |-> "AssertionError", instances |-> instances]
    ELSE AddLoop(instances, avg_pool2d(images), image_masks, 1)

----------------------------------------------------------------------------
(* prepare_targets *)

(* int(v) of a coordinate in half pixels: truncation toward zero. *)
IntOf(v) == IF v >= 0 THEN v \div 2 ELSE -((-v) \div 2)

(* bitmask_full: zeros with                                                *)
(*   [int(y1):int(y2 + 1), int(x1):int(x2 + 1)] = 1.0                      *)
bitmask_full(h, w, per_box) ==
    LET r0 == SliceBound(IntOf(per_box[2]), h)
        r1 == SliceBound(IntOf(per_box[4] + 2), h)
        c0 == SliceBound(IntOf(per_box[1]), w)
        c1 == SliceBound(IntOf(per_box[3] + 2), w)
    IN Tensor(<<h, w>>,
              [f \in 1..(h * w) |->
                 LET r == (f - 1) \div w
                     c == (f - 1) % w
                 IN IF r >= r0 /\ r < r1 /\ c >= c0 /\ c < c1 THEN 1 ELSE 0])

(* torch.stack(per_im_bitmasks_full, dim=0) of n (h, w) tensors: an        *)
(* (n, h, w) tensor; an empty list is an error.                            *)
Stack(per_im_bitmasks_full, n, h, w) ==
    IF n = 0 THEN Raise("RuntimeError")
    ELSE Return(Tensor(<<n, h, w>>,
                       [f \in 1..(n * h * w) |->
                          per_im_bitmasks_full[((f - 1) \div (h * w)) + 1]
                              .data[((f - 1) % (h * w)) + 1]]))

(* The body of the loop for one ground-truth record. *)
TargetOf(targets_per_image) ==
    IF targets_per_image.image_color_similarity = <<>>
    THEN Raise("AttributeError")
    ELSE
      Then(Stack([k \in 1..Len(targets_per_image.gt_boxes) |->
                    bitmask_full(targets_per_image.image_size[1],
                                 targets_per_image.image_size[2],
                                 targets_per_image.gt_boxes[k])] \o <<>>,
                 Len(targets_per_image.gt_boxes),
                 targets_per_image.image_size[1],
                 targets_per_image.image_size[2]),
           LAMBDA gt_masks :
             Return([color_sim |-> targets_per_image.image_color_similarity[1],
                     labels |-> targets_per_image.gt_classes,
                     boxes |-> targets_per_image.gt_boxes,
                     masks |-> gt_masks]))

RECURSIVE PrepareLoop(_, _, _)
PrepareLoop(targets, new_targets, k) ==
    IF k > Len(targets) THEN Return(new_targets)
    ELSE Then(TargetOf(targets[k]),
              LAMBDA target :
                PrepareLoop(targets, Append(new_targets, target), k + 1))

prepare_targets(targets) == PrepareLoop(targets, <<>>, 1)

----------------------------------------------------------------------------
(* inference *)

(* A result (detectron2 Instances) is                                      *)
(*   [image_size |-> <<height, width>>, scores, pred_classes, pred_masks]  *)
(* where each field is <<>> while it is not set and <<value>> once it is.  *)
(* Scores before rescoring are in thousandths; rescored scores are in      *)
(* units of 1e-9 (see rescoring_mask).                                     *)

At3(x, b, n, c) == x.data[(b * x.shape[2] + n) * x.shape[3] + c + 1]

(* Tensor.sigmoid() in float32 on the logits the model's inputs are made   *)
(* of, given in tenths: sigmoid(-200) is 0.0, sigmoid(0) is 0.5 and        *)
(* sigmoid(200) is 1.0 exactly; the others are rounded to thousandths.     *)
sigmoid(l) ==
    CASE l = -2000 -> 0
      [] l = -10 -> 269
      [] l = 0 -> 500
      [] l = 10 -> 731
      [] l = 2000 -> 1000

(* torch.sqrt(pred_scores * pred_objectness)[b]: per slot, per class. *)
scores_per_image(output, b) ==
    [n \in 1..output.pred_logits.shape[2] |->
       [c \in 1..output.pred_logits.shape[3] |->
          Isqrt(sigmoid(At3(output.pred_logits, b, n - 1, c - 1))
                  * sigmoid(At3(output.pred_scores, b, n - 1, 0)))] \o <<>>] \o <<>>

(* pred_masks.sigmoid()[b], an (N, H, W) tensor. *)
mask_pred_per_image(output, b) ==
    LET N == output.pred_masks.shape[2]
        H == output.pred_masks.shape[3]
        W == output.pred_masks.shape[4]
    IN Tensor(<<N, H, W>>,
              [f \in 1..(N * H * W) |->
                 sigmoid(output.pred_masks.data[b * N * H * W + f])])

(* Tensor.max(dim=-1) on one slot's class scores: the maximum and the      *)
(* first index that holds it.                                              *)
MaxValue(row) == CHOOSE v \in {row[c] : c \in 1..Len(row)} : \A c \in 1..Len(row) : row[c] <= v

MaxIndex(row) ==
    (CHOOSE c \in 1..Len(row) :
        /\ row[c] = MaxValue(row)
        /\ \A o \in 1..(c - 1) : row[o] # MaxValue(row)) - 1

(* The scores that are not below the threshold. *)
KeepNotBelow(scores, cls_threshold) ==
    [n \in 1..Len(scores) |-> scores[n] >= cls_threshold] \o <<>>

(* keep = scores > self.cls_threshold *)
Keep(scores, cls_threshold) == [n \in 1..Len(scores) |-> scores[n] > cls_threshold] \o <<>>

(* The positions (from 1) where keep is true among the first n, in order. *)
RECURSIVE Nonzero(_, _)
Nonzero(keep, n) ==
    IF n = 0 THEN <<>>
    ELSE Nonzero(keep, n - 1) \o (IF keep[n] THEN <<n>> ELSE <<>>)

(* seq[keep], given the kept positions. *)
Masked(seq, kept) == [k \in 1..Len(kept) |-> seq[kept[k]]] \o <<>>

(* t[keep] of an (N, H, W) tensor, given the kept positions. *)
MaskedTensor(t, kept) ==
    LET hw == t.shape[2] * t.shape[3]
    IN Tensor(<<Len(kept), t.shape[2], t.shape[3]>>,
              [f \in 1..(Len(kept) * hw) |->
                 t.data[(kept[((f - 1) \div hw) + 1] - 1) * hw + ((f - 1) % hw) + 1]])

(* t > threshold, as 0 and 1. *)
Greater(t, threshold) ==
    Tensor(t.shape, [f \in 1..Prod(t.shape) |-> IF t.data[f] > threshold THEN 1 ELSE 0])

(* Bilinear resampling with align_corners=False along one axis: the source *)
(* coordinate of dst is max((dst + 0.5) * in / out - 0.5, 0); SrcNum is    *)
(* that coordinate times 2 * out.                                          *)
SrcNum(in_size, out_size, dst) ==
    IF in_size * (2 * dst + 1) - out_size < 0 THEN 0
    ELSE in_size * (2 * dst + 1) - out_size

(* F.interpolate(input, size=size, mode="bilinear", align_corners=False)   *)
(* of an (N, H, W) tensor of thousandths; the result is floored to         *)
(* thousandths.                                                            *)
interpolate(input, size) ==
    LET in_h == input.shape[2]
        in_w == input.shape[3]
        out_h == size[1]
        out_w == size[2]
        at(n, i, j) == input.data[(n * in_h + i) * in_w + j + 1]
        el(f) ==
            LET x == f % out_w
                y == (f \div out_w) % out_h
                n == f \div (out_w * out_h)
                y0 == SrcNum(in_h, out_h, y) \div (2 * out_h)
                x0 == SrcNum(in_w, out_w, x) \div (2 * out_w)
                y1 == IF y0 < in_h - 1 THEN y0 + 1 ELSE y0
                x1 == IF x0 < in_w - 1 THEN x0 + 1 ELSE x0
                ly == SrcNum(in_h, out_h, y) % (2 * out_h)
                lx == SrcNum(in_w, out_w, x) % (2 * out_w)
            IN ((2 * out_h - ly) * ((2 * out_w - lx) * at(n, y0, x0) + lx * at(n, y0, x1))
                  + ly * ((2 * out_w - lx) * at(n, y1, x0) + lx * at(n, y1, x1)))
                 \div (4 * out_h * out_w)
    IN Tensor(<<input.shape[1], out_h, out_w>>,
              [f \in 1..(input.shape[1] * out_h * out_w) |-> el(f - 1)])

(* t[:, :h, :w] of an (N, H, W) tensor. *)
Crop(t, h, w) ==
    LET hh == SliceBound(h, t.shape[2])
        ww == SliceBound(w, t.shape[3])
    IN Tensor(<<t.shape[1], hh, ww>>,
              [f \in 1..(t.shape[1] * hh * ww) |->
                 t.data[(((f - 1) \div (hh * ww)) * t.shape[2]
                           + (((f - 1) \div ww) % hh)) * t.shape[3]
                          + ((f - 1) % ww) + 1]])

MaxOf(rows) == [n \in 1..Len(rows) |-> MaxValue(rows[n])] \o <<>>

ArgMaxOf(rows) == [n \in 1..Len(rows) |-> MaxIndex(rows[n])] \o <<>>

(* The first interpolation alone. *)
WithoutResizeToOriginal(mask_pred, max_shape, img_shape, ori_shape) ==
    Crop(interpolate(mask_pred, max_shape), img_shape[1], img_shape[2])

(* The two interpolations: to the padded input with the padding removed,   *)
(* then to the original size.                                              *)
Upsampled(mask_pred, max_shape, img_shape, ori_shape) ==
    interpolate(Crop(interpolate(mask_pred, max_shape), img_shape[1], img_shape[2]),
                ori_shape)

(* The result of an image with no detection kept. *)
EmptyResult(ori_shape, scores, labels) ==
    [image_size |-> ori_shape, scores |-> <<scores>>, pred_classes |-> <<labels>>,
     pred_masks |-> <<>>]

(* The result of an image with detections: mask_pred is the soft masks of  *)
(* the kept slots.                                                         *)
Detections(self, ori_shape, scores, labels, mask_pred, img_shape, max_shape) ==
    [image_size |-> ori_shape,
     scores |-> <<rescoring_mask(scores, Greater(mask_pred, self.mask_threshold),
                                 mask_pred)>>,
     pred_classes |-> <<labels>>,
     pred_masks |-> <<Greater(Upsampled(mask_pred, max_shape, img_shape, ori_shape),
                              self.mask_threshold)>>]

(* The loop body that appends no result for an image with no detection. *)
EmptyNotAppended(results, self, ori_shape, scores, labels, mask_pred, kept, img_shape, max_shape) ==
    IF Len(kept) = 0 THEN results
    ELSE Append(results,
                Detections(self, ori_shape, Masked(scores, kept), Masked(labels, kept),
                           MaskedTensor(mask_pred, kept), img_shape, max_shape))

(* The body of the loop from the filter on: kept is the positions of the   *)
(* slots that keep selects.                                                *)
Filtered(results, self, ori_shape, scores, labels, mask_pred, kept, img_shape, max_shape) ==
    IF Len(kept) = 0
    THEN Append(results, EmptyResult(ori_shape, Masked(scores, kept), Masked(labels, kept)))
    ELSE Append(results,
                Detections(self, ori_shape, Masked(scores, kept), Masked(labels, kept),
                           MaskedTensor(mask_pred, kept), img_shape, max_shape))

(* The body of the loop for one image: rows is its slots' class scores. *)
PerImage(results, self, rows, mask_pred, batched_input, img_shape, max_shape) ==
    Filtered(results, self, <<batched_input.height, batched_input.width>>,
             MaxOf(rows), ArgMaxOf(rows), mask_pred,
             Nonzero(Keep(MaxOf(rows), self.cls_threshold), Len(rows)),
             img_shape, max_shape)

(* zip stops at the shortest of its arguments. *)
Min(a, b) == IF a <= b THEN a ELSE b

ZipLen(output, batched_inputs, image_sizes) ==
    Min(Min(output.pred_logits.shape[1], output.pred_masks.shape[1]),
        Min(Len(batched_inputs), Len(image_sizes)))

RECURSIVE InferLoop(_, _, _, _, _, _, _)
InferLoop(self, output, batched_inputs, max_shape, image_sizes, results, b) ==
    IF b >= ZipLen(output, batched_inputs, image_sizes) THEN results
    ELSE InferLoop(self, output, batched_inputs, max_shape, image_sizes,
                   PerImage(results, self, scores_per_image(output, b),
                            mask_pred_per_image(output, b),
                            batched_inputs[b + 1], image_sizes[b + 1], max_shape),
                   b + 1)

inference(self, output, batched_inputs, max_shape, image_sizes) ==
    Return(InferLoop(self, output, batched_inputs, max_shape, image_sizes, <<>>, 0))

----------------------------------------------------------------------------
(* Inputs of the direct calls. *)

(* A tensor of the given shape whose element at flat index f is f + 1:     *)
(* every element is distinct and none is 0, the value of the padding.      *)
Iota(shape) == Tensor(shape, [f \in 1..Prod(shape) |-> f])

UnfoldShapes ==
    {<<b, c, h, w>> : b \in {1, 2}, c \in {1, 2}, h \in 1..MaxHW, w \in 1..MaxHW}
        \cup {<<2, 3, 2>>, <<1, 1, 2, 2, 2>>}

RgbPalette == {<<0, 0, 0>>, <<255, 255, 255>>, <<0, 0, 255>>, <<255, 255, 0>>}

(* A (B, 3, H, W) image whose first column has colour c1 and whose other   *)
(* columns have colour c2.                                                 *)
TwoColourImage(B, H, W, c1, c2) ==
    Tensor(<<B, 3, H, W>>,
           [f \in 1..(B * 3 * H * W) |->
              LET j == (f - 1) % W
                  ch == ((f - 1) \div (H * W)) % 3
              IN IF j = 0 THEN c1[ch + 1] ELSE c2[ch + 1]])

(* The (H, W) validity mask of an (h, w) image padded to (H, W). *)
ValidMask(H, W, h, w) ==
    Tensor(<<H, W>>,
           [f \in 1..(H * W) |->
              IF (f - 1) \div W < h /\ (f - 1) % W < w THEN 1 ELSE 0])

(* Well-formed calls, and calls with a batch of 2, an even kernel or a     *)
(* rank-3 image.                                                           *)
ColorSimInputs ==
    UNION {{[images |-> TwoColourImage(1, HW[1], HW[2], rgb2lab(c1), rgb2lab(c2)),
             image_masks |-> ValidMask(HW[1], HW[2], h, w),
             kernel_size |-> 3, dilation |-> d] :
               h \in 1..HW[1], w \in 1..HW[2],
               c1 \in RgbPalette, c2 \in RgbPalette, d \in 1..MaxDil} :
           HW \in {1, 2} \X (1..MaxHW)}
    \cup {[images |-> TwoColourImage(B, 2, 2, rgb2lab(<<0, 0, 255>>),
                                     rgb2lab(<<255, 255, 255>>)),
           image_masks |-> ValidMask(2, 2, 2, 2),
           kernel_size |-> k, dilation |-> d] :
             B \in {1, 2}, k \in {2, 3}, d \in 1..MaxDil}
    \cup {[images |-> Tensor(<<3, 2, 2>>, [f \in 1..12 |-> 0]),
           image_masks |-> ValidMask(2, 2, 2, 2),
           kernel_size |-> 3, dilation |-> d] : d \in 1..MaxDil}

(* The levels soft mask values and scores are drawn from, in thousandths. *)
SoftLevels == {0, 500, 1000}

MaskShapes == {<<1, 1>>, <<1, 2>>, <<2, 1>>, <<1, 3>>, <<2, 2>>}

RescoreInputs ==
    UNION {{[scores |-> <<s>>,
             mask_pred |-> Tensor(<<1, shp[1], shp[2]>>, b),
             masks |-> Tensor(<<1, shp[1], shp[2]>>, m)] :
               s \in SoftLevels,
               b \in [1..(shp[1] * shp[2]) -> {0, 1}],
               m \in [1..(shp[1] * shp[2]) -> SoftLevels]} :
           shp \in MaskShapes}

(* The training batches.  An image of size (h, w) sits in the top left    *)
(* corner of its (H, W) slot of the padded batch tensor; its stride x      *)
(* stride blocks that lie wholly inside it have colour cols[1] in the      *)
(* first block column and cols[2] in the others, and the rest of the       *)
(* image, like the padding, is 0.                                          *)
TrainImages(sizes, cols, H, W) ==
    Tensor(<<Len(sizes), 3, H, W>>,
           [f \in 1..(Len(sizes) * 3 * H * W) |->
              LET c == (f - 1) % W
                  r == ((f - 1) \div W) % H
                  ch == ((f - 1) \div (W * H)) % 3
                  b == (f - 1) \div (W * H * 3)
                  inside == /\ (r \div stride + 1) * stride <= sizes[b + 1][1]
                            /\ (c \div stride + 1) * stride <= sizes[b + 1][2]
              IN IF ~inside THEN 0
                 ELSE IF c \div stride = 0 THEN cols[1][ch + 1] ELSE cols[2][ch + 1]])

TrainMasks(sizes, H, W) ==
    Tensor(<<Len(sizes), H, W>>,
           [f \in 1..(Len(sizes) * H * W) |->
              LET c == (f - 1) % W
                  r == ((f - 1) \div W) % H
                  b == (f - 1) \div (W * H)
              IN IF r < sizes[b + 1][1] /\ c < sizes[b + 1][2] THEN 1 ELSE 0])

FreshInstances(size, boxes, classes) ==
    [image_size |-> size, gt_classes |-> classes, gt_boxes |-> boxes,
     image_color_similarity |-> <<>>]

TrainInput(sizes, boxes, H, W) ==
    [instances |-> [b \in 1..Len(sizes) |->
                      FreshInstances(sizes[b], boxes[b],
                                     [k \in 1..Len(boxes[b]) |-> k % 2])],
     images |-> TrainImages(sizes, <<<<255, 255, 255>>, <<255, 255, 0>>>>, H, W),
     image_masks |-> TrainMasks(sizes, H, W)]

(* Box k of the instance lists of the batches: the box spanning the whole  *)
(* image, then small boxes.                                                *)
BoxK(k, h, w) ==
    IF k = 1 THEN <<0, 0, 2 * (w - 1), 2 * (h - 1)>> ELSE <<k - 2, 0, k, 2>>

PaddedSizes == {<<4, 4>>, <<4, 12>>, <<6, 4>>, <<4, 6>>}

(* What a training batch is made from: the images' sizes, their boxes and  *)
(* the padded size.  Batches of 1..MaxBatch images with 0..MaxInst         *)
(* instances each.                                                         *)
BatchParams ==
    UNION {UNION {{[sizes |-> [b \in 1..B |-> o[b][1]],
                    boxes |-> [b \in 1..B |->
                                 [k \in 1..o[b][2] |->
                                    BoxK(k, o[b][1][1], o[b][1][2])]],
                    padded |-> HW] :
                     o \in [1..B -> {HW, <<2, 3>>} \X (0..MaxInst)]} :
                  B \in 1..MaxBatch} :
           HW \in PaddedSizes}

(* The pairs lo <= hi of half-pixel coordinates on an axis of n pixels,    *)
(* from BoxPad pixels before the image to BoxPad pixels past it.           *)
Spans(n) ==
    {q \in ((-2 * BoxPad)..(2 * (n - 1 + BoxPad)))
             \X ((-2 * BoxPad)..(2 * (n - 1 + BoxPad))) : q[1] <= q[2]}

(* One (2, 3) image with one box: every span on each axis. *)
BoxParams ==
    {[sizes |-> <<<<2, 3>>>>, boxes |-> <<<<<<x[1], y[1], x[2], y[2]>>>>>>,
      padded |-> <<4, 4>>] : x \in Spans(3), y \in Spans(2)}

TrainParams == BatchParams \cup BoxParams

(* The inference calls.  A call is made from the logits of the decoder's   *)
(* output (in tenths, as sequences per image, slot and class or pixel),    *)
(* the shape of the predicted masks, the padded input's shape, the images' *)
(* sizes before padding and their original sizes, and the thresholds (in   *)
(* thousandths).                                                           *)
InferInput(p) ==
    LET B == Len(p.cls)
        N == Len(p.cls[1])
        C == Len(p.cls[1][1])
        hw == p.mask_shape[1] * p.mask_shape[2]
    IN [self |-> [cls_threshold |-> p.cls_threshold,
                  mask_threshold |-> p.mask_threshold],
        output |->
          [pred_logits |->
             Tensor(<<B, N, C>>,
                    [f \in 1..(B * N * C) |->
                       p.cls[((f - 1) \div (N * C)) + 1][(((f - 1) \div C) % N) + 1]
                            [((f - 1) % C) + 1]]),
           pred_scores |->
             Tensor(<<B, N, 1>>,
                    [f \in 1..(B * N) |-> p.obj[((f - 1) \div N) + 1][((f - 1) % N) + 1]]),
           pred_masks |->
             Tensor(<<B, N, p.mask_shape[1], p.mask_shape[2]>>,
                    [f \in 1..(B * N * hw) |->
                       p.masks[((f - 1) \div (N * hw)) + 1][(((f - 1) \div hw) % N) + 1]
                              [((f - 1) % hw) + 1]])],
        batched_inputs |-> [b \in 1..B |-> [height |-> p.ori[b][1], width |-> p.ori[b][2]]],
        max_shape |-> p.max_shape,
        image_sizes |-> p.image_sizes]

(* One image with 1..MaxSlots slots and two classes: every combination of  *)
(* class and objectness logits, under thresholds of 0.005, 0.5 and 0.65.   *)
ScoreParams ==
    UNION {{[cls |-> <<[n \in 1..N |-> <<q[n][1], q[n][2]>>]>>,
             obj |-> <<[n \in 1..N |-> q[n][3]]>>,
             masks |-> <<[n \in 1..N |-> IF n % 2 = 1 THEN <<2000, -2000>>
                                         ELSE <<0, 2000>>]>>,
             mask_shape |-> <<1, 2>>, max_shape |-> <<2, 4>>,
             image_sizes |-> <<<<2, 3>>>>, ori |-> <<<<3, 5>>>>,
             cls_threshold |-> t, mask_threshold |-> 450] :
               q \in [1..N -> {0, 10} \X {0, 10} \X {0, 2000}],
               t \in {5, 500, 650}} :
           N \in 1..MaxSlots}

(* One image with one detection: every mask of the given shapes, with the  *)
(* image filling the padded input or not and three original sizes.         *)
MaskParams ==
    UNION {{[cls |-> <<<<<<10, 0>>>>>>, obj |-> <<<<2000>>>>,
             masks |-> <<<<m>>>>,
             mask_shape |-> ms, max_shape |-> <<2 * ms[1], 2 * ms[2]>>,
             image_sizes |-> <<sz>>, ori |-> <<o>>,
             cls_threshold |-> 5, mask_threshold |-> 450] :
               m \in [1..(ms[1] * ms[2]) -> {-2000, 0, 2000}],
               sz \in {<<2 * ms[1], 2 * ms[2]>>, <<ms[1], 3>>},
               o \in {<<1, 1>>, <<3, 5>>, <<2 * ms[1], 2 * ms[2]>>}} :
           ms \in {<<1, 2>>, <<2, 2>>}}

(* Batches of 1..MaxBatch images with two slots: kind k of an image says   *)
(* which of its slots score above the threshold (bit 0: the first, bit 1:  *)
(* the second).  Image b has original height b.                            *)
InferBatchParams ==
    UNION {{[cls |-> [b \in 1..B |->
                        <<IF kinds[b] % 2 = 1 THEN <<0, 10>> ELSE <<-2000, -2000>>,
                          IF kinds[b] \div 2 = 1 THEN <<10, 0>> ELSE <<-2000, -2000>>>>],
             obj |-> [b \in 1..B |-> <<2000, 2000>>],
             masks |-> [b \in 1..B |-> <<<<2000, 0>>, <<0, 2000>>>>],
             mask_shape |-> <<1, 2>>, max_shape |-> <<2, 4>>,
             image_sizes |-> [b \in 1..B |-> <<2, 3 + (kinds[b] % 2)>>],
             ori |-> [b \in 1..B |-> <<b, 2 + kinds[b]>>],
             cls_threshold |-> 500, mask_threshold |-> 450] :
               kinds \in [1..B -> 0..3]} :
           B \in 1..MaxBatch}

InferParams == ScoreParams \cup MaskParams \cup InferBatchParams

----------------------------------------------------------------------------
(* The state machine: a caller makes one call at a time.                   *)

NoArgs == [none |-> TRUE]

Init ==
    /\ pc = "idle"
    /\ fn = "none"
    /\ args = NoArgs
    /\ raised = "none"
    /\ ret = <<>>
    /\ gt_instances = <<>>

(* The call of f on a has had the outcome r. *)
Called(f, a, r) ==
    /\ fn' = f
    /\ args' = a
    /\ raised' = r.raised
    /\ ret' = r.value

CallUnfoldWoCenter ==
    /\ pc = "idle"
    /\ \E shape \in UnfoldShapes, k \in 2..MaxKernel, d \in 1..MaxDil :
         Called("unfold_wo_center",
                [x |-> Iota(shape), kernel_size |-> k, dilation |-> d],
                unfold_wo_center(Iota(shape), k, d))
    /\ pc' = "done"
    /\ UNCHANGED gt_instances

CallColorSimilarity ==
    /\ pc = "idle"
    /\ \E a \in ColorSimInputs :
         Called("get_images_color_similarity", a,
                get_images_color_similarity(a.images, a.image_masks,
                                            a.kernel_size, a.dilation))
    /\ pc' = "done"
    /\ UNCHANGED gt_instances

CallRescoringMask ==
    /\ pc = "idle"
    /\ \E a \in RescoreInputs :
         Called("rescoring_mask", a,
                Return(rescoring_mask(a.scores, a.mask_pred, a.masks)))
    /\ pc' = "done"
    /\ UNCHANGED gt_instances

CallInference ==
    /\ pc = "idle"
    /\ \E p \in InferParams :
         \E a \in {InferInput(p)} :
           Called("inference", a,
                  inference(a.self, a.output, a.batched_inputs, a.max_shape,
                            a.image_sizes))
    /\ pc' = "done"
    /\ UNCHANGED gt_instances

(* forward() in training mode: add_bitmasks_from_boxes on the batch's      *)
(* ground-truth records, then prepare_targets on them.                     *)
AddBitmasksFromBoxes ==
    /\ pc = "idle"
    /\ \E p \in TrainParams :
         \E a \in {TrainInput(p.sizes, p.boxes, p.padded[1], p.padded[2])} :
           \E r \in {add_bitmasks_from_boxes(a.instances, a.images, a.image_masks)} :
             /\ fn' = "add_bitmasks_from_boxes"
             /\ args' = a
             /\ raised' = r.raised
             /\ gt_instances' = r.instances
             /\ pc' = IF r.raised = "none" THEN "prepare_targets" ELSE "done"
    /\ ret' = <<>>

PrepareTargets ==
    /\ pc = "prepare_targets"
    /\ \E r \in {prepare_targets(gt_instances)} :
         /\ raised' = r.raised
         /\ ret' = r.value
    /\ fn' = "prepare_targets"
    /\ pc' = "done"
    /\ UNCHANGED <<args, gt_instances>>

(* The caller drops the outcome and is ready for the next call. *)
Reset ==
    /\ pc = "done"
    /\ pc' = "idle"
    /\ fn' = "none"
    /\ args' = NoArgs
    /\ raised' = "none"
    /\ ret' = <<>>
    /\ gt_instances' = <<>>

NextUnfold == CallUnfoldWoCenter \/ Reset

SpecUnfold == Init /\ [][NextUnfold]_vars

NextColor == CallColorSimilarity \/ Reset

SpecColor == Init /\ [][NextColor]_vars

NextRescore == CallRescoringMask \/ Reset

SpecRescore == Init /\ [][NextRescore]_vars

NextInfer == CallInference \/ Reset

SpecInfer == Init /\ [][NextInfer]_vars

NextTrain == AddBitmasksFromBoxes \/ PrepareTargets \/ Reset

SpecTrain == Init /\ [][NextTrain]_vars

(* The calls that check a precondition. *)
NextPre ==
    \/ CallUnfoldWoCenter
    \/ CallColorSimilarity
    \/ AddBitmasksFromBoxes
    \/ PrepareTargets
    \/ Reset

SpecPre == Init /\ [][NextPre]_vars

----------------------------------------------------------------------------
(* Properties of unfold_wo_center. *)

(* The zero-padded input at (i, j). *)
Padded(x, b, c, i, j) ==
    IF i >= 0 /\ i < x.shape[3] /\ j >= 0 /\ j < x.shape[4]
    THEN At4(x, b, c, i, j) ELSE 0

(* Entry n of the output is window position n before the centre and       *)
(* position n + 1 after it.                                                *)
WindowPos(n, kernel_size) ==
    IF n < (kernel_size * kernel_size) \div 2 THEN n ELSE n + 1

(* The offset along an axis of window position a of a window centred on    *)
(* its pixel.                                                              *)
Offset(a, kernel_size, dilation) == (a - (kernel_size - 1) \div 2) * dilation

(* C4: for an odd kernel size k >= 3, a dilation d >= 1 and an input of    *)
(* shape (B, C, H, W), unfold_wo_center returns (it raises nothing, so the *)
(* windows are H*W and the reshape is valid) a tensor of shape             *)
(* (B, C, k*k-1, H, W) whose entries at each location are the window       *)
(* positions other than the centre, index (k*k) div 2, in their order.     *)
C4_SameSizeWithoutCenter ==
    (/\ pc = "done"
     /\ fn = "unfold_wo_center"
     /\ Len(args.x.shape) = 4
     /\ args.kernel_size % 2 = 1
     /\ args.kernel_size >= 3)
    => /\ raised = "none"
       /\ ret[1].shape = <<args.x.shape[1], args.x.shape[2],
                           args.kernel_size * args.kernel_size - 1,
                           args.x.shape[3], args.x.shape[4]>>
       /\ \A b \in 0..(args.x.shape[1] - 1), c \in 0..(args.x.shape[2] - 1),
             n \in 0..(args.kernel_size * args.kernel_size - 2),
             i \in 0..(args.x.shape[3] - 1), j \in 0..(args.x.shape[4] - 1) :
            At5(ret[1], b, c, n, i, j)
              = Padded(args.x, b, c,
                       i + Offset(WindowPos(n, args.kernel_size) \div args.kernel_size,
                                  args.kernel_size, args.dilation),
                       j + Offset(WindowPos(n, args.kernel_size) % args.kernel_size,
                                  args.kernel_size, args.dilation))

(* A 5 x 5 window of dilation 2 on a batch of two 2-channel 3 x 3 inputs. *)
C4_Witness ==
    /\ pc = "done"
    /\ fn = "unfold_wo_center"
    /\ args.kernel_size = 5
    /\ args.dilation = 2
    /\ args.x.shape = <<2, 2, 3, 3>>
    /\ raised = "none"
    /\ ret[1].shape[3] = 24

----------------------------------------------------------------------------
(* Properties of rescoring_mask.  The calls have one detection. *)

(* sum(bool_mask * soft_mask) and sum(bool_mask), the first in             *)
(* thousandths.                                                            *)
Overlap(mask_pred, masks) ==
    SumProd(masks, mask_pred, 0, masks.shape[2] * masks.shape[3])

Area(mask_pred) ==
    SumProd(mask_pred, mask_pred, 0, mask_pred.shape[2] * mask_pred.shape[3])

Mass(masks) ==
    SumProd(masks, [shape |-> masks.shape,
                    data |-> [f \in 1..Prod(masks.shape) |-> 1]],
            0, masks.shape[2] * masks.shape[3])

(* The soft and the boolean masks of a shape. *)
SoftMasks(shape) ==
    {[shape |-> shape, data |-> m] : m \in [1..Prod(shape) -> SoftLevels]}

BoolMasks(shape) ==
    {[shape |-> shape, data |-> b] : b \in [1..Prod(shape) -> {0, 1}]}

(* A rescored score s' of the score s is within epsilon of s: the ratio is *)
(* at least 1 - 1e-6 and at most 1.                                        *)
WithinEpsilon(rescored, score) ==
    rescored <= score * EpsInv /\ score * EpsInv - rescored <= score

----------------------------------------------------------------------------
(* Properties of get_images_color_similarity.  The calls have a 3 x 3      *)
(* window, so a pixel has 8 neighbours.                                    *)

(* The validity weight of neighbour n of pixel (i, j): the mask at the     *)
(* neighbour's position, and 0 outside the image.                          *)
Validity(image_masks, n, i, j, dilation) ==
    LET ni == i + Offset(WindowPos(n, 3) \div 3, 3, dilation)
        nj == j + Offset(WindowPos(n, 3) % 3, 3, dilation)
    IN IF ni >= 0 /\ ni < image_masks.shape[1] /\ nj >= 0 /\ nj < image_masks.shape[2]
       THEN image_masks.data[ni * image_masks.shape[2] + nj + 1]
       ELSE 0

(* The squared colour distance between pixel (i, j) and its neighbour n,   *)
(* the colour outside the image being 0.                                   *)
SquaredDistance(images, n, i, j, dilation) ==
    LET ni == i + Offset(WindowPos(n, 3) \div 3, 3, dilation)
        nj == j + Offset(WindowPos(n, 3) % 3, 3, dilation)
        d(c) == At4(images, 0, c, i, j) - Padded(images, 0, c, ni, nj)
    IN d(0) * d(0) + d(1) * d(1) + d(2) * d(2)

WellFormedColorCall ==
    /\ pc = "done"
    /\ fn = "get_images_color_similarity"
    /\ Len(args.images.shape) = 4
    /\ args.images.shape[1] = 1
    /\ args.kernel_size = 3

(* C7 as the claim states it: the value of a neighbour of validity 1 is in *)
(* (0, 1] and that of a neighbour of validity 0 is 0.                      *)
C7_AsClaimed ==
    WellFormedColorCall
    => /\ raised = "none"
       /\ \A n \in 0..7, i \in 0..(args.images.shape[3] - 1),
             j \in 0..(args.images.shape[4] - 1) :
            IF Validity(args.image_masks, n, i, j, args.dilation) = 1
            THEN At4(ret[1], 0, n, i, j) > 0 /\ At4(ret[1], 0, n, i, j) <= F32Codes
            ELSE At4(ret[1], 0, n, i, j) = 0

(* C7: the output has shape (1, 8, H, W); the value of a neighbour of      *)
(* validity 1 is in [0, 1], is 1 when the two colours are equal and is     *)
(* positive when their distance is at most 200 (beyond about 208 the       *)
(* float32 exponential is 0.0); the value of a neighbour of validity 0,    *)
(* one outside the image included, is 0.                                   *)
C7_SimilarityRange ==
    WellFormedColorCall
    => /\ raised = "none"
       /\ ret[1].shape = <<1, 8, args.images.shape[3], args.images.shape[4]>>
       /\ \A n \in 0..7, i \in 0..(args.images.shape[3] - 1),
             j \in 0..(args.images.shape[4] - 1) :
            IF Validity(args.image_masks, n, i, j, args.dilation) = 1
            THEN /\ At4(ret[1], 0, n, i, j) >= 0
                 /\ At4(ret[1], 0, n, i, j) <= F32Codes
                 /\ SquaredDistance(args.images, n, i, j, args.dilation) = 0
                      => At4(ret[1], 0, n, i, j) = F32Codes
                 /\ SquaredDistance(args.images, n, i, j, args.dilation) <= 200 * 200
                      => At4(ret[1], 0, n, i, j) > 0
            ELSE At4(ret[1], 0, n, i, j) = 0

(* A blue pixel with a valid yellow neighbour, whose similarity is 0.0,    *)
(* and with a neighbour outside the image.                                 *)
C7_Witness ==
    /\ WellFormedColorCall
    /\ raised = "none"
    /\ args.dilation = 1
    /\ args.images.shape = <<1, 3, 2, 2>>
    /\ Validity(args.image_masks, 4, 0, 0, 1) = 1
    /\ SquaredDistance(args.images, 4, 0, 0, 1) > 208 * 208
    /\ At4(ret[1], 0, 4, 0, 0) = 0
    /\ Validity(args.image_masks, 0, 0, 0, 1) = 0
    /\ At4(ret[1], 0, 6, 0, 0) = F32Codes

----------------------------------------------------------------------------
(* Properties of the training path: add_bitmasks_from_boxes, then          *)
(* prepare_targets.                                                        *)

(* The training path has come to its end on a batch whose padded size the  *)
(* stride divides.                                                         *)
TrainingPathEnded ==
    /\ pc = "done"
    /\ fn \in {"add_bitmasks_from_boxes", "prepare_targets"}
    /\ args.images.shape[3] % stride = 0
    /\ args.images.shape[4] % stride = 0

(* C2 as the claim states it: with an image of zero ground-truth instances *)
(* in the batch the training path does not crash, and the target of such   *)
(* an image has zero labels, zero boxes and zero pseudo-masks.             *)
C2_AsClaimed ==
    (/\ TrainingPathEnded
     /\ \E b \in 1..Len(args.instances) : Len(args.instances[b].gt_boxes) = 0)
    => /\ raised = "none"
       /\ fn = "prepare_targets"
       /\ Len(ret[1]) = Len(args.instances)
       /\ \A b \in 1..Len(args.instances) :
            Len(args.instances[b].gt_boxes) = 0
              => /\ Len(ret[1][b].labels) = 0
                 /\ Len(ret[1][b].boxes) = 0
                 /\ ret[1][b].masks.shape[1] = 0

(* C3 as the claim states it: pixel (r, c) of the pseudo-mask of the box   *)
(* (x1, y1, x2, y2) is 1 exactly when trunc(y1) <= r <= trunc(y2) and      *)
(* trunc(x1) <= c <= trunc(x2), whatever the sign of the coordinates.      *)
C3_AsClaimed ==
    (pc = "done" /\ fn = "prepare_targets" /\ raised = "none")
    => \A b \in 1..Len(ret[1]) :
         /\ ret[1][b].masks.shape
              = <<Len(gt_instances[b].gt_boxes)>> \o gt_instances[b].image_size
         /\ \A k \in 1..Len(gt_instances[b].gt_boxes),
               r \in 0..(gt_instances[b].image_size[1] - 1),
               c \in 0..(gt_instances[b].image_size[2] - 1) :
              ret[1][b].masks.data[((k - 1) * gt_instances[b].image_size[1] + r)
                                     * gt_instances[b].image_size[2] + c + 1] = 1
                <=> /\ IntOf(gt_instances[b].gt_boxes[k][2]) <= r
                    /\ r <= IntOf(gt_instances[b].gt_boxes[k][4])
                    /\ IntOf(gt_instances[b].gt_boxes[k][1]) <= c
                    /\ c <= IntOf(gt_instances[b].gt_boxes[k][3])

(* The colour similarity of image b (from 1) of the batch of the call. *)
ColorSimOf(b) ==
    get_images_color_similarity(
        ImagesLab(avg_pool2d(args.images), b - 1),
        SubsampledMask(args.image_masks, stride \div 2, b - 1),
        pairwise_size, pairwise_dilation).value[1]

(* C9: the target of an image with n >= 1 instances holds n class labels,  *)
(* n boxes and n pseudo-masks, the labels and boxes being those of the     *)
(* ground truth and pseudo-mask i the rasterisation of box i; its colour   *)
(* similarity has n blocks of 8 channels, each of them the map of the      *)
(* image, which does not depend on the boxes.  After                       *)
(* add_bitmasks_from_boxes every record with n >= 1 instances holds that   *)
(* colour similarity.                                                      *)
C9_TargetsAligned ==
    /\ (fn = "add_bitmasks_from_boxes" /\ raised = "none")
       => \A b \in 1..Len(gt_instances) :
            Len(gt_instances[b].gt_boxes) >= 1
              => /\ gt_instances[b].image_color_similarity # <<>>
                 /\ gt_instances[b].image_color_similarity[1].shape
                      = <<Len(gt_instances[b].gt_boxes), pairwise_size * pairwise_size - 1,
                          args.images.shape[3] \div stride,
                          args.images.shape[4] \div stride>>
                 /\ \A map \in {ColorSimOf(b)} :
                      \A k \in 1..Len(gt_instances[b].gt_boxes),
                         f \in 1..Prod(map.shape) :
                        gt_instances[b].image_color_similarity[1]
                            .data[(k - 1) * Prod(map.shape) + f] = map.data[f]
    /\ (pc = "done" /\ fn = "prepare_targets" /\ raised = "none")
       => /\ Len(ret[1]) = Len(gt_instances)
          /\ \A b \in 1..Len(ret[1]) :
               /\ ret[1][b].labels = args.instances[b].gt_classes
               /\ ret[1][b].boxes = args.instances[b].gt_boxes
               /\ Len(ret[1][b].labels) = Len(ret[1][b].boxes)
               /\ ret[1][b].masks.shape
                    = <<Len(ret[1][b].boxes)>> \o args.instances[b].image_size
               /\ \A k \in 1..Len(ret[1][b].boxes) :
                    \A mask \in {bitmask_full(args.instances[b].image_size[1],
                                              args.instances[b].image_size[2],
                                              ret[1][b].boxes[k])} :
                      \A f \in 1..Prod(mask.shape) :
                        ret[1][b].masks.data[(k - 1) * Prod(mask.shape) + f] = mask.data[f]
               /\ ret[1][b].color_sim = gt_instances[b].image_color_similarity[1]

(* The targets of a batch of two images, the first with two instances      *)
(* (boxes with different pseudo-masks) and the second with one.            *)
C9_Witness ==
    /\ pc = "done"
    /\ fn = "prepare_targets"
    /\ raised = "none"
    /\ Len(ret[1]) = 2
    /\ Len(ret[1][1].boxes) = 2
    /\ Len(ret[1][2].boxes) = 1
    /\ ret[1][1].boxes[1] # ret[1][1].boxes[2]
    /\ ret[1][1].color_sim.shape[1] = 2
    /\ \E f \in 1..Prod(ret[1][1].color_sim.shape) : ret[1][1].color_sim.data[f] > 0

----------------------------------------------------------------------------
(* Properties of the preconditions. *)

(* The call that was made violates a precondition: the input of            *)
(* unfold_wo_center is not of rank 4 or the kernel size is even (also when *)
(* the colour similarity calls it), the colour-similarity images are not   *)
(* of rank 4 or not a batch of 1, or the stride does not divide the height *)
(* or the width of the images of add_bitmasks_from_boxes.                  *)
PreconditionViolated ==
    \/ /\ fn = "unfold_wo_center"
       /\ (Len(args.x.shape) # 4 \/ args.kernel_size % 2 # 1)
    \/ /\ fn = "get_images_color_similarity"
       /\ (\/ Len(args.images.shape) # 4
           \/ args.images.shape[1] # 1
           \/ args.kernel_size % 2 # 1)
    \/ /\ fn = "add_bitmasks_from_boxes"
       /\ (args.images.shape[3] % stride # 0 \/ args.images.shape[4] % stride # 0)

(* C8: a call that violates a precondition raises AssertionError, nothing  *)
(* being coerced, and an AssertionError is raised by such a call only; the *)
(* call is then over and nothing runs after it (no prepare_targets), it    *)
(* has returned no value (no target list), and add_bitmasks_from_boxes has *)
(* left every ground-truth record as it was, with no colour-similarity map *)
(* attached.                                                               *)
C8_PreconditionAborts ==
    /\ PreconditionViolated => raised = "AssertionError"
    /\ raised = "AssertionError"
       => /\ PreconditionViolated
          /\ pc = "done"
          /\ ret = <<>>
          /\ fn = "add_bitmasks_from_boxes"
               => /\ gt_instances = args.instances
                  /\ \A b \in 1..Len(gt_instances) :
                       gt_instances[b].image_color_similarity = <<>>

(* add_bitmasks_from_boxes has raised on images of height 6 with a ground  *)
(* truth record that has instances.                                        *)
C8_Witness ==
    /\ fn = "add_bitmasks_from_boxes"
    /\ raised = "AssertionError"
    /\ args.images.shape[3] = 6
    /\ \E b \in 1..Len(args.instances) : Len(args.instances[b].gt_boxes) > 0

----------------------------------------------------------------------------
(* Properties of inference.  Images, slots and classes are counted from 1  *)
(* here, class labels from 0.                                              *)

InferenceReturned == pc = "done" /\ fn = "inference"

BatchSize == Len(args.batched_inputs)

Slots == 1..args.output.pred_logits.shape[2]

Classes == 1..args.output.pred_logits.shape[3]

(* sqrt(class_prob * objectness_prob) of class c of slot n of image b. *)
SlotScore(b, n, c) ==
    Isqrt(sigmoid(At3(args.output.pred_logits, b - 1, n - 1, c - 1))
            * sigmoid(At3(args.output.pred_scores, b - 1, n - 1, 0)))

(* The best score of a slot and its label, the first class that has it. *)
Best(b, n) ==
    CHOOSE v \in {SlotScore(b, n, c) : c \in Classes} :
      \A c \in Classes : SlotScore(b, n, c) <= v

Label(b, n) ==
    (CHOOSE c \in Classes :
        /\ SlotScore(b, n, c) = Best(b, n)
        /\ \A o \in Classes : o < c => SlotScore(b, n, o) < Best(b, n)) - 1

(* The slots of image b whose best score is above the threshold. *)
Above(b) == {n \in Slots : Best(b, n) > args.self.cls_threshold}

(* The soft mask of slot n of image b, as a (1, H, W) tensor. *)
SoftMask(b, n) ==
    LET H == args.output.pred_masks.shape[3]
        W == args.output.pred_masks.shape[4]
    IN Tensor(<<1, H, W>>,
              [f \in 1..(H * W) |->
                 sigmoid(args.output.pred_masks.data[
                     ((b - 1) * args.output.pred_masks.shape[2] + n - 1) * H * W + f])])

(* The score of slot n of image b after rescoring. *)
Rescored(b, n) ==
    rescoring_mask(<<Best(b, n)>>,
                   Greater(SoftMask(b, n), args.self.mask_threshold),
                   SoftMask(b, n))[1]

(* The detections of result b are the slots of the set emitted, in slot    *)
(* order, each with its label and its rescored score.                      *)
DetectionsAre(b, emitted) ==
    /\ ret[1][b].scores # <<>>
    /\ ret[1][b].pred_classes # <<>>
    /\ Len(ret[1][b].scores[1]) = Cardinality(emitted)
    /\ Len(ret[1][b].pred_classes[1]) = Cardinality(emitted)
    /\ ret[1][b].pred_masks # <<>> => ret[1][b].pred_masks[1].shape[1] = Cardinality(emitted)
    /\ emitted # {} => ret[1][b].pred_masks # <<>>
    /\ \A slot \in [1..Cardinality(emitted) -> emitted] :
         (\A k \in 1..(Cardinality(emitted) - 1) : slot[k] < slot[k + 1])
           => \A k \in 1..Cardinality(emitted) :
                /\ ret[1][b].pred_classes[1][k] = Label(b, slot[k])
                /\ ret[1][b].scores[1][k] = Rescored(b, slot[k])

(* C10 as the claim states it: a slot is emitted if and only if its best   *)
(* score is not below the threshold.                                       *)
C10_AsClaimed ==
    InferenceReturned
    => /\ raised = "none"
       /\ Len(ret[1]) = BatchSize
       /\ \A b \in 1..BatchSize :
            DetectionsAre(b, {n \in Slots : ~(Best(b, n) < args.self.cls_threshold)})

(* C10: a slot's best score is the maximum over the classes of             *)
(* sqrt(class_prob * objectness_prob) and its label the first class that   *)
(* has it; a slot is emitted if and only if its best score is strictly     *)
(* above the threshold (a score equal to the threshold is dropped); the    *)
(* emitted slots keep their order, and rescoring changes their scores but  *)
(* removes and adds none.                                                  *)
C10_EmittedAboveThreshold ==
    InferenceReturned
    => /\ raised = "none"
       /\ Len(ret[1]) = BatchSize
       /\ \A b \in 1..BatchSize : DetectionsAre(b, Above(b))

(* Two slots under a threshold of 0.5: the first scores 0.5 and is         *)
(* dropped, the second scores more with both classes tied and is emitted   *)
(* with label 0.                                                           *)
C10_Witness ==
    /\ InferenceReturned
    /\ BatchSize = 1
    /\ Slots = {1, 2}
    /\ Best(1, 1) = args.self.cls_threshold
    /\ Best(1, 2) > args.self.cls_threshold
    /\ SlotScore(1, 2, 1) = SlotScore(1, 2, 2)
    /\ ret[1][1].pred_classes = <<<<0>>>>
    /\ Len(ret[1][1].scores[1]) = 1

----------------------------------------------------------------------------
(* The results of inference, image by image. *)

OriginalShape(b) == <<args.batched_inputs[b].height, args.batched_inputs[b].width>>

HasDetections(b) == ret[1][b].pred_masks # <<>>

(* C5: every detection emitted by inference has a rescored score in [0, 1] *)
(* (0 to 10^9 in units of 1e-9) and a boolean (0/1) mask of the original   *)
(* height and width of its input record, whatever the padded size and the  *)
(* valid size used for the crop between the two interpolations.            *)
C5_DetectionInvariant ==
    InferenceReturned
    => /\ raised = "none"
       /\ \A b \in 1..Len(ret[1]) :
            /\ \A k \in 1..Len(ret[1][b].scores[1]) :
                 /\ ret[1][b].scores[1][k] >= 0
                 /\ ret[1][b].scores[1][k] <= Milli * EpsInv
            /\ HasDetections(b)
                 => /\ ret[1][b].pred_masks[1].shape
                         = <<Len(ret[1][b].scores[1])>> \o OriginalShape(b)
                    /\ Len(ret[1][b].pred_masks[1].data)
                         = Len(ret[1][b].scores[1]) * OriginalShape(b)[1] * OriginalShape(b)[2]
                    /\ \A f \in 1..Len(ret[1][b].pred_masks[1].data) :
                         ret[1][b].pred_masks[1].data[f] \in {0, 1}

(* A detection of an image whose original size, valid size and padded size *)
(* all differ, with a positive score and a mask that is neither empty nor  *)
(* full.                                                                   *)
C5_Witness ==
    /\ InferenceReturned
    /\ raised = "none"
    /\ HasDetections(1)
    /\ OriginalShape(1) # args.image_sizes[1]
    /\ args.image_sizes[1] # args.max_shape
    /\ OriginalShape(1) # args.max_shape
    /\ ret[1][1].scores[1][1] > 0
    /\ \E f, g \in 1..Len(ret[1][1].pred_masks[1].data) :
         ret[1][1].pred_masks[1].data[f] = 1 /\ ret[1][1].pred_masks[1].data[g] = 0

(* C1: inference returns one result per input image, in input order; an    *)
(* image with no slot whose best score passes the threshold has a result   *)
(* with empty scores and empty class labels and no masks, no exception is  *)
(* raised, and the images after it are processed as any other.             *)
C1_OneResultPerImage ==
    InferenceReturned
    => /\ raised = "none"
       /\ Len(ret[1]) = BatchSize
       /\ \A b \in 1..BatchSize :
            /\ ret[1][b].image_size = OriginalShape(b)
            /\ Above(b) = {}
                 => /\ ret[1][b].scores = <<<<>>>>
                    /\ ret[1][b].pred_classes = <<<<>>>>
                    /\ ret[1][b].pred_masks = <<>>
            /\ Above(b) # {}
                 => /\ HasDetections(b)
                    /\ Len(ret[1][b].scores[1]) = Cardinality(Above(b))
                    /\ Len(ret[1][b].pred_classes[1]) = Cardinality(Above(b))

(* A batch whose first image has no detection and whose last image has. *)
C1_Witness ==
    /\ InferenceReturned
    /\ BatchSize > 1
    /\ Above(1) = {}
    /\ Above(BatchSize) # {}
    /\ Len(ret[1]) = BatchSize
    /\ ret[1][1].scores = <<<<>>>>
    /\ HasDetections(BatchSize)

====
